---- MODULE Spec2Model ----
(***************************************************************************)
(* MilvusClient (src/src/client/database/milvus/milvus_client.py): the     *)
(* collection lifecycle (load_collection_), the insert path (store_doc)    *)
(* and the query path (search_docs), together with the vector store the    *)
(* client talks to through pymilvus.                                       *)
(*                                                                         *)
(* Python values are tagged records: None, str, int, list, dict, set.      *)
(* A dict is a sequence of <<key, value>> pairs.                           *)
(***************************************************************************)
EXTENDS FiniteSets, Integers, Sequences, TLC

\* ---------------------------------------------------------------- bounds
\* rows the whole database may hold
MaxRows == 2

\* ---------------------------------------------------------- Python values
PyNone == [t |-> "None"]
PyStr(s) == [t |-> "str", v |-> s]
PyInt(i) == [t |-> "int", v |-> i]
PyList(q) == [t |-> "list", v |-> q]
PyDict(m) == [t |-> "dict", v |-> m]
PySet == [t |-> "set"]

\* Python truth value of an object, as `not x` and all([...]) take it
Truthy(x) ==
    CASE x.t = "None" -> FALSE
      [] x.t = "str" -> x.v # ""
      [] x.t = "int" -> x.v # 0
      [] x.t = "list" -> Len(x.v) > 0
      [] x.t = "dict" -> Len(x.v) > 0
      [] OTHER -> TRUE

\* all([...]) over a sequence of objects
All(xs) == \A i \in 1..Len(xs) : Truthy(xs[i])

\* dict.get(key, default) on a metadata mapping (a function on the keys present)
Get(m, k, default) == IF k \in DOMAIN m THEN m[k] ELSE default

\* ------------------------------------------------------------------ JSON
\* str(int) for the keys json.dumps coerces
IntText(i) == CASE i = 0 -> "0" [] i = 1 -> "1" [] i = 2 -> "2" [] OTHER -> "9"

Quoted(s) == "\"" \o s \o "\""

\* whether json.dumps accepts the object (TypeError otherwise)
RECURSIVE Serializable(_)
Serializable(x) ==
    CASE x.t \in {"None", "str", "int"} -> TRUE
      [] x.t = "dict" -> \A i \in 1..Len(x.v) :
                            /\ x.v[i][1].t \in {"str", "int"}
                            /\ Serializable(x.v[i][2])
      [] OTHER -> FALSE

\* the text json.dumps produces; keys that are not strings are coerced to strings
RECURSIVE DumpText(_)
RECURSIVE DumpMembers(_, _)
DumpMembers(m, i) ==
    IF i > Len(m) THEN ""
    ELSE (IF i > 1 THEN ", " ELSE "")
         \o Quoted(IF m[i][1].t = "int" THEN IntText(m[i][1].v) ELSE m[i][1].v)
         \o ": " \o DumpText(m[i][2]) \o DumpMembers(m, i + 1)
DumpText(x) ==
    CASE x.t = "None" -> "null"
      [] x.t = "str" -> Quoted(x.v)
      [] x.t = "int" -> IntText(x.v)
      [] x.t = "dict" -> "{" \o DumpMembers(x.v, 1) \o "}"
      [] OTHER -> ""

\* json.dumps(x): the text, or a TypeError
JsonDumps(x) ==
    IF Serializable(x) THEN [ok |-> TRUE, text |-> DumpText(x)]
    ELSE [ok |-> FALSE, text |-> ""]

\* the objects json.loads can produce from the texts of the model
HeaderKeys == {"h"}
HeaderVals == {"a"}
JsonObjects ==
    {PyNone} \cup {PyDict(<<>>)}
    \cup {PyDict(<<<<PyStr(k), PyStr(v)>>>>) :
            k \in HeaderKeys \cup {IntText(1)}, v \in HeaderVals}

\* json.loads(text): the object whose JSON text this is
JsonLoads(text) == CHOOSE x \in JsonObjects : DumpText(x) = text

\* ---------------------------------------------------------------- schema
\* MilvusClient.fields: the field names of a collection the client creates
Fields == <<"id", "user_id", "kb_id", "file_id", "headers", "doc_id",
            "content", "embedding">>

\* MilvusClient.output_fields
OutputFields == <<"id", "user_id", "kb_id", "file_id", "headers", "doc_id",
                  "content", "embedding">>

\* self.create_params
CreateParams == [metric_type |-> "L2", index_type |-> "IVF_FLAT", nlist |-> 1024]

\* self.search_params
SearchParams == [metric_type |-> "L2", nprobe |-> 128]

\* doc_limit: int = 10
DefaultLimit == 10

\* -------------------------------------------------------------- the store
\* collection names, which are also the tenants' user ids
Names == {"u1", "u2"}

\* FieldSchema(name='embedding', ..., dim=768), scaled down
Dim == 1

\* components a caller may put in a vector
Coord == {0, 1, 2}

\* FLOAT_VECTOR holds single precision: a component off the single-precision
\* grid (the odd numbers of the model) is rounded onto it
F32(x) == x - (x % 2)

F32Vec(q) == [i \in 1..Len(q) |-> F32(q[i])]

\* squared L2 distance between two vectors of the same length
RECURSIVE SqDist(_, _)
SqDist(a, b) ==
    IF Len(a) = 0 THEN 0
    ELSE (a[1] - b[1]) * (a[1] - b[1]) + SqDist(Tail(a), Tail(b))

NoCollection == [exists |-> FALSE, schema |-> <<>>, index |-> <<>>,
                 loaded |-> FALSE, rows |-> <<>>]


\* a collection the client has created: Collection(user_id, schema), no index yet
NewCollection == [exists |-> TRUE, schema |-> Fields, index |-> <<>>,
                  loaded |-> FALSE, rows |-> <<>>]

\* collection.create_index(field_name="embedding", index_params=self.create_params)
CreateIndex(c) == [c EXCEPT !.index = <<"embedding", CreateParams>>]

\* collection.load()
Load(c) == [c EXCEPT !.loaded = TRUE]

\* boolean expressions over the scalar fields; "123" is the malformed one of main()
ExprOf(u) == "user_id == '" \o u \o "'"
ExprValid(e) == e = "" \/ \E u \in Names : e = ExprOf(u)
Matches(e, row) == e = "" \/ (row.user_id.t = "str" /\ e = ExprOf(row.user_id.v))

\* the row the store keeps for one inserted entity: auto id, vector in single precision
StoredRow(c, data) ==
    [id |-> Len(c.rows) + 1,
     user_id |-> data[1][1], kb_id |-> data[2][1], file_id |-> data[3][1],
     headers |-> data[4][1], doc_id |-> data[5][1], content |-> data[6][1],
     embedding |-> PyList(F32Vec(data[7][1].v))]

\* whether the store takes the entity: seven columns, a vector of the schema's dimension
InsertAccepted(c, data) ==
    /\ c.exists
    /\ Len(data) = Len(c.schema) - 1
    /\ data[7][1].t = "list"
    /\ Len(data[7][1].v) = Dim

\* Collection.insert(data): one row appended
Insert(c, data) == [c EXCEPT !.rows = Append(@, StoredRow(c, data))]

\* whether the store takes the search request
SearchAccepted(c, req) ==
    /\ c.exists /\ c.loaded
    /\ req.data.t = "list" /\ Len(req.data.v) = 1
    /\ req.data.v[1].t = "list" /\ Len(req.data.v[1].v) = Dim
    /\ req.limit >= 1
    /\ ExprValid(req.expr)
    /\ req.anns_field = "embedding"
    /\ req.param.metric_type = "L2"

Min(a, b) == IF a < b THEN a ELSE b

\* distance of a row to the query, under the metric of the request
RowDist(q, row) == SqDist(F32Vec(q), row.embedding.v)

\* Collection.search: for the one query vector, every ranking the store may return:
\* the `limit` nearest rows that satisfy expr, nearest first, ties in any order
Rankings(c, req) ==
    LET q == req.data.v[1].v
        cand == {i \in 1..Len(c.rows) : Matches(req.expr, c.rows[i])}
        k == Min(req.limit, Cardinality(cand))
    IN {[i \in 1..k |-> c.rows[s[i]]] :
          s \in {t \in [1..k -> cand] :
                   /\ \A i, j \in 1..k : i < j =>
                        /\ t[i] # t[j]
                        /\ RowDist(q, c.rows[t[i]]) <= RowDist(q, c.rows[t[j]])
                   /\ \A x \in cand : (\A i \in 1..k : t[i] # x) =>
                        \A i \in 1..k :
                          RowDist(q, c.rows[t[i]]) <= RowDist(q, c.rows[x])}}


\* ------------------------------------------------------------- the client
VARIABLES
    constructed,  \* whether MilvusClient() has run
    connected,    \* whether connections.connect(...) succeeded in __init__
    sess,         \* self.sess: PyNone, or the name of the Collection it holds
    db,           \* the store: collection name -> collection
    lastOp,       \* the last call on the client and its outcome
    everLoaded,   \* history: whether some load_collection_ has returned
    lastStored    \* history: input and target of the last store_doc that returned

vars == <<constructed, connected, sess, db, lastOp, everLoaded, lastStored>>

\* a metadata key that is not present, an argument that is not passed
Absent == [t |-> "absent"]

NoRequest == [data |-> PyNone, anns_field |-> "", param |-> SearchParams, limit |-> 0,
              expr |-> "", output_fields |-> <<>>]

NoDoc == [page_content |-> PyNone, metadata |-> <<>>]

\* op: the method called; name: the collection load_collection_ was given;
\* err: the exception raised ("" when the call returned);
\* issued: whether the call reached Collection.insert / Collection.search;
\* ret: what search_docs returned; sent, limit: the request of a search that
\* returned and the doc_limit argument it was given;
\* defect: whether store_doc was given an empty or absent required field
NoOp == [op |-> "none", name |-> "", err |-> "", issued |-> FALSE, ret |-> <<>>,
         sent |-> NoRequest, limit |-> Absent, defect |-> FALSE]

NoStored == [coll |-> "", doc |-> NoDoc, embedding |-> PyNone]

\* rows in the whole store
RECURSIVE RowsIn(_, _)
RowsIn(d, S) == IF S = {} THEN 0
                ELSE LET n == CHOOSE n \in S : TRUE
                     IN Len(d[n].rows) + RowsIn(d, S \ {n})
TotalRows == RowsIn(db, Names)

Init ==
    /\ constructed = FALSE
    /\ connected = FALSE
    /\ sess = PyNone
    /\ db = [n \in Names |-> NoCollection]
    /\ lastOp = NoOp
    /\ everLoaded = FALSE
    /\ lastStored = NoStored

\* (mutant) __init__ lets the failure of connections.connect propagate
InitErrRaise(connectOk) == IF connectOk THEN "" ELSE "Connection"

\* __init__: a failure of connections.connect is logged, not raised
InitErr(connectOk) == ""

Construct(connectOk) ==
    /\ ~constructed
    /\ constructed' = TRUE
    /\ connected' = connectOk
    /\ sess' = PyNone
    /\ lastOp' = [NoOp EXCEPT !.op = "init", !.err = InitErr(connectOk)]
    /\ UNCHANGED <<db, everLoaded, lastStored>>

\* load_collection_(user_id); fp names the pymilvus call that raises, if any
LoadPoints == {"none", "has_collection", "Collection", "create_index", "load"}

\* (mutant) load_collection_ creates the collection whether or not it exists
LoadEffectRecreate(c, fp) ==
    IF fp = "has_collection" \/ fp = "Collection" THEN c
    ELSE LET made == IF fp = "create_index" THEN NewCollection
                     ELSE CreateIndex(NewCollection)
         IN IF fp = "none" THEN Load(made) ELSE made

\* the collection as load_collection_ leaves it in the store
LoadEffect(c, fp) ==
    IF fp = "has_collection" \/ fp = "Collection" THEN c
    ELSE LET made == IF c.exists THEN c
                     ELSE IF fp = "create_index" THEN NewCollection
                     ELSE CreateIndex(NewCollection)
         IN IF fp = "none" THEN Load(made) ELSE made

\* (mutant) self.sess is assigned as soon as the Collection object exists
LoadSessEarly(old, user_id, fp) ==
    IF fp = "has_collection" \/ fp = "Collection" THEN old ELSE PyStr(user_id)

\* self.sess after load_collection_: assigned after collection.load() has returned
LoadSess(old, user_id, fp) == IF fp = "none" THEN PyStr(user_id) ELSE old

load_collection_(user_id, fp) ==
    /\ constructed
    /\ ~connected => fp = "has_collection"
    /\ fp = "create_index" => ~db[user_id].exists
    /\ db' = [db EXCEPT ![user_id] = LoadEffect(@, fp)]
    /\ sess' = LoadSess(sess, user_id, fp)
    /\ everLoaded' = (everLoaded \/ fp = "none")
    /\ lastOp' = [NoOp EXCEPT !.op = "load", !.name = user_id,
                              !.err = IF fp = "none" THEN "" ELSE fp]
    /\ UNCHANGED <<constructed, connected, lastStored>>

\* ---------------------------------------------------------------- store_doc
\* headers = json.dumps(metadata.get('headers', {}))
HeadersText(metadata) == JsonDumps(Get(metadata, "headers", PyDict(<<>>)))

\* the list handed to all([...])
RequiredFields(doc, embedding) ==
    <<Get(doc.metadata, "user_id", PyNone), Get(doc.metadata, "kb_id", PyNone),
      Get(doc.metadata, "file_id", PyNone), Get(doc.metadata, "doc_id", PyNone),
      doc.page_content, embedding>>

\* data: seven columns of one value each, no primary key
InsertData(doc, headers, embedding) ==
    <<<<Get(doc.metadata, "user_id", PyNone)>>, <<Get(doc.metadata, "kb_id", PyNone)>>,
      <<Get(doc.metadata, "file_id", PyNone)>>, <<PyStr(headers)>>,
      <<Get(doc.metadata, "doc_id", PyNone)>>, <<doc.page_content>>, <<embedding>>>>

\* the exception store_doc wraps in MilvusFailed, "" when it returns, in the code's
\* order: the handle, json.dumps, the required fields, the insert
StoreDocErr(s, dumped, required, accepted) ==
    IF ~Truthy(s) THEN "NotLoaded"
    ELSE IF ~dumped THEN "TypeError"
    ELSE IF ~All(required) THEN "Validation"
    ELSE IF ~accepted THEN "StoreWrite"
    ELSE ""

\* (mutant) the insert goes to the collection named by the document's user_id
InsertTargetByUser(s, doc) == Get(doc.metadata, "user_id", PyNone).v

\* the collection self.sess.insert writes to
InsertTarget(s, doc) == s.v

\* (mutant) the insert is issued before the required fields are checked
StoreDocEffectEarly(c, err, data) ==
    IF err = "" \/ (err = "Validation" /\ InsertAccepted(c, data))
    THEN Insert(c, data) ELSE c

\* the collection after store_doc: the insert is the last step, after every check
StoreDocEffect(c, err, data) == IF err = "" THEN Insert(c, data) ELSE c

\* a required field that is absent (no key, or None) or empty ("" or [])
EmptyOrAbsent(m, k) == k \notin DOMAIN m \/ m[k] = PyNone \/ m[k] = PyStr("")
InputDefect(doc, embedding) ==
    \/ \E k \in {"user_id", "kb_id", "file_id", "doc_id"} : EmptyOrAbsent(doc.metadata, k)
    \/ doc.page_content \in {PyNone, PyStr("")}
    \/ embedding \in {PyNone, PyList(<<>>)}

store_doc(doc, embedding, insertOk) ==
    /\ constructed
    /\ LET target == IF Truthy(sess) THEN InsertTarget(sess, doc) ELSE "u1"
           headers == HeadersText(doc.metadata)
           data == InsertData(doc, headers.text, embedding)
           err == StoreDocErr(sess, headers.ok, RequiredFields(doc, embedding),
                              insertOk /\ InsertAccepted(db[target], data))
       IN /\ err = "" => TotalRows < MaxRows
          /\ db' = [db EXCEPT ![target] = StoreDocEffect(@, err, data)]
          /\ lastOp' = [NoOp EXCEPT !.op = "store", !.err = err,
                                    !.issued = err \in {"", "StoreWrite"},
                                    !.defect = InputDefect(doc, embedding)]
          /\ lastStored' = IF err = ""
                           THEN [coll |-> target, doc |-> doc, embedding |-> embedding]
                           ELSE lastStored
    /\ UNCHANGED <<constructed, connected, sess, everLoaded>>

\* -------------------------------------------------------------- search_docs
\* (mutant) the request carries the default limit, whatever doc_limit is
SearchRequestDefaultLimit(query_embedding, filter_expr, doc_limit) ==
    [data |-> IF Truthy(query_embedding) THEN PyList(<<query_embedding>>) ELSE PyNone,
     anns_field |-> "embedding",
     param |-> SearchParams,
     limit |-> DefaultLimit,
     expr |-> IF Truthy(filter_expr) THEN filter_expr.v ELSE "",
     output_fields |-> OutputFields]

\* the keyword arguments of self.sess.search(**search_params)
SearchRequest(query_embedding, filter_expr, doc_limit) ==
    [data |-> IF Truthy(query_embedding) THEN PyList(<<query_embedding>>) ELSE PyNone,
     anns_field |-> "embedding",
     param |-> SearchParams,
     limit |-> doc_limit,
     expr |-> IF Truthy(filter_expr) THEN filter_expr.v ELSE "",
     output_fields |-> OutputFields]

\* (mutant) the headers are returned as stored, without json.loads
HitDocRawHeaders(hit) ==
    [user_id |-> hit.user_id, kb_id |-> hit.kb_id, file_id |-> hit.file_id,
     headers |-> hit.headers, doc_id |-> hit.doc_id,
     content |-> hit.content, embedding |-> hit.embedding]

\* the dict built for one hit
HitDoc(hit) ==
    [user_id |-> hit.user_id, kb_id |-> hit.kb_id, file_id |-> hit.file_id,
     headers |-> JsonLoads(hit.headers.v), doc_id |-> hit.doc_id,
     content |-> hit.content, embedding |-> hit.embedding]

\* (mutant) each dict is put at the front of retrieved_docs
RECURSIVE RetrievedDocsReversed(_)
RetrievedDocsReversed(results) ==
    IF Len(results) = 0 THEN <<>>
    ELSE RetrievedDocsReversed(Tail(results))
         \o [i \in 1..Len(results[1]) |->
               HitDoc(results[1][Len(results[1]) + 1 - i])]

\* retrieved_docs: for hits in results: for hit in hits: append
RECURSIVE RetrievedDocs(_)
RetrievedDocs(results) ==
    IF Len(results) = 0 THEN <<>>
    ELSE [i \in 1..Len(results[1]) |-> HitDoc(results[1][i])]
         \o RetrievedDocs(Tail(results))

\* doc_limit when the argument is not passed
DocLimit(limitArg) == IF limitArg = Absent THEN DefaultLimit ELSE limitArg.v

search_docs(query_embedding, filter_expr, limitArg, searchOk) ==
    /\ constructed
    /\ LET req == SearchRequest(query_embedding, filter_expr, DocLimit(limitArg))
           call == [NoOp EXCEPT !.op = "search"]
       IN IF ~Truthy(sess)
          THEN lastOp' = [call EXCEPT !.err = "NotLoaded"]
          ELSE IF ~(searchOk /\ SearchAccepted(db[sess.v], req))
          THEN lastOp' = [call EXCEPT !.err = "Query", !.issued = TRUE]
          ELSE \E hits \in Rankings(db[sess.v], req) :
                 lastOp' = [call EXCEPT !.issued = TRUE, !.sent = req,
                                        !.limit = limitArg,
                                        !.ret = RetrievedDocs(<<hits>>)]
    /\ UNCHANGED <<constructed, connected, sess, db, everLoaded, lastStored>>

\* ------------------------------------------------------------------ inputs
StrMap == PyDict(<<<<PyStr("h"), PyStr("a")>>>>)
IntKeyMap == PyDict(<<<<PyInt(1), PyStr("a")>>>>)
SetMap == PyDict(<<<<PyStr("h"), PySet>>>>)

\* headers json.dumps accepts: key missing, None, {}, {"h": "a"}, {1: "a"}
HeadersArgs == {Absent, PyNone, PyDict(<<>>), StrMap, IntKeyMap}

\* metadata with the keys that are given
Metadata(u, k, f, h, d) ==
    LET given == [user_id |-> u, kb_id |-> k, file_id |-> f, headers |-> h, doc_id |-> d]
    IN [key \in {x \in DOMAIN given : given[x] # Absent} |-> given[key]]

Doc(u, k, f, h, d, c) == [page_content |-> c, metadata |-> Metadata(u, k, f, h, d)]

\* a document with every required field given
ValidDoc(u, h) == Doc(PyStr(u), PyStr("kb1"), PyStr("f1"), h, PyStr("d1"), PyStr("c1"))

\* documents with required fields absent, None or empty
DefectDocs ==
    {Doc(u, k, f, h, d, c) :
        u \in {PyStr(""), PyStr("u1")}, k \in {PyNone, PyStr("kb1")},
        f \in {PyStr(""), PyStr("f1")}, d \in {Absent, PyStr("d1")},
        c \in {PyStr(""), PyStr("c1")}, h \in {StrMap, SetMap}}
    \ {ValidDoc("u1", StrMap), ValidDoc("u1", SetMap)}

Vec(x) == PyList([i \in 1..Dim |-> x])

\* a vector one component too long
LongVec == PyList([i \in 1..(Dim + 1) |-> 0])

\* the lifecycle and the insert path: documents of both tenants, headers json.dumps
\* accepts ({"h": "a"}) and refuses ({"h": set()}), defective documents and embeddings
StoreArgs ==
    {<<ValidDoc(u, h), e>> : u \in Names, h \in {StrMap, SetMap},
                             e \in {PyNone, PyList(<<>>), Vec(0), LongVec}}
    \cup (DefectDocs \X {Vec(0)})
\* the inserts the store refuses though the arguments are in order
RefusedArgs == {<<ValidDoc(u, StrMap), Vec(0)>> : u \in Names}
QueryArgs == {PyNone, Vec(0), LongVec}
FilterArgs == {PyNone, PyStr(ExprOf("u1")), PyStr("123")}
LimitArgs == {Absent, PyInt(0), PyInt(1)}

Next ==
    \/ \E ok \in BOOLEAN : Construct(ok)
    \/ \E n \in Names, fp \in LoadPoints : load_collection_(n, fp)
    \/ \E a \in StoreArgs : store_doc(a[1], a[2], TRUE)
    \/ \E a \in RefusedArgs : store_doc(a[1], a[2], FALSE)
    \/ \E q \in QueryArgs, f \in FilterArgs, l \in LimitArgs, ok \in BOOLEAN :
          search_docs(q, f, l, ok)

Spec == Init /\ [][Next]_vars

\* the headers and the embedding through store and search: one tenant, every shape of
\* headers json.dumps accepts, components on and off the single-precision grid
HeaderStoreArgs == {<<ValidDoc("u1", h), e>> : h \in HeadersArgs, e \in {Vec(0), Vec(1)}}
HeaderFilterArgs == {PyStr(""), PyStr(ExprOf("u1"))}
HeaderLimitArgs == {Absent} \cup {PyInt(n) : n \in 1..MaxRows}

NextHeaders ==
    \/ \E ok \in BOOLEAN : Construct(ok)
    \/ load_collection_("u1", "none")
    \/ \E a \in HeaderStoreArgs : store_doc(a[1], a[2], TRUE)
    \/ \E f \in HeaderFilterArgs, l \in HeaderLimitArgs :
          search_docs(Vec(0), f, l, TRUE)

SpecHeaders == Init /\ [][NextHeaders]_vars

\* the query path: rows of both tenants at two distances, every shape of query
SearchStoreArgs == {<<ValidDoc(u, StrMap), e>> : u \in Names, e \in {Vec(0), Vec(2)}}
SearchQueryArgs == {PyNone, PyList(<<>>), Vec(0), Vec(2)}
SearchFilterArgs == {PyNone} \cup {PyStr(ExprOf(u)) : u \in Names} \cup {PyStr("123")}
SearchLimitArgs == {Absent} \cup {PyInt(n) : n \in 0..MaxRows}

NextSearch ==
    \/ \E ok \in BOOLEAN : Construct(ok)
    \/ \E n \in Names : load_collection_(n, "none")
    \/ \E a \in SearchStoreArgs : store_doc(a[1], a[2], TRUE)
    \/ \E q \in SearchQueryArgs, f \in SearchFilterArgs, l \in SearchLimitArgs :
          search_docs(q, f, l, TRUE)

SpecSearch == Init /\ [][NextSearch]_vars

\* ------------------------------------------------------------------ claims
\* the rows of a collection that satisfy a filter expression
MatchCount(c, e) == Cardinality({i \in 1..Len(c.rows) : Matches(e, c.rows[i])})

\* C1: on a client on which no load_collection_ has returned, every store_doc and
\* every search_docs fails with the not-loaded failure and reaches neither
\* Collection.insert nor Collection.search.
C1_NotLoadedBeforeLoad ==
    (~everLoaded /\ lastOp.op \in {"store", "search"})
        => (lastOp.err = "NotLoaded" /\ ~lastOp.issued)

\* C1 witness: a client whose load_collection_ created the collection and then
\* failed, and whose store_doc was refused.
C1_Witness ==
    /\ ~everLoaded /\ connected
    /\ \E n \in Names : db[n].exists
    /\ lastOp.op = "store" /\ lastOp.err = "NotLoaded"

\* C2 (as claimed): on a loaded collection, store_doc of a document or embedding
\* with an empty or absent required field fails with the validation failure and
\* reaches no insert.
C2_Claim ==
    (lastOp.op = "store" /\ sess # PyNone /\ lastOp.defect)
        => (lastOp.err = "Validation" /\ ~lastOp.issued)

\* what search_docs is to return for a stored document: the caller's values
Expected(doc, embedding) ==
    [user_id |-> doc.metadata["user_id"], kb_id |-> doc.metadata["kb_id"],
     file_id |-> doc.metadata["file_id"], headers |-> doc.metadata["headers"],
     doc_id |-> doc.metadata["doc_id"], content |-> doc.page_content,
     embedding |-> embedding]

\* a search_docs that returned, on the collection of the last stored document,
\* with a filter on that document's user_id, the document having all seven fields
SearchedForStored ==
    /\ lastOp.op = "search" /\ lastOp.err = ""
    /\ lastStored.coll # "" /\ sess = PyStr(lastStored.coll)
    /\ "headers" \in DOMAIN lastStored.doc.metadata
    /\ Truthy(lastStored.doc.metadata["headers"])
    /\ lastOp.sent.expr = ExprOf(lastStored.doc.metadata["user_id"].v)

JsonNative(h) ==
    h.t = "dict" /\ \A i \in 1..Len(h.v) : h.v[i][1].t = "str" /\ h.v[i][2].t = "str"

C4_AtMostLimit ==
    (lastOp.op = "search" /\ lastOp.err = "")
        => LET limit == IF lastOp.limit = Absent THEN 10 ELSE lastOp.limit.v
           IN Len(lastOp.ret) <= limit /\ lastOp.sent.limit = limit

\* C4 witness: a search with limit 1 over more matching rows that returned one record.
C4_Witness ==
    /\ lastOp.op = "search" /\ lastOp.err = ""
    /\ lastOp.limit = PyInt(1) /\ Len(lastOp.ret) = 1
    /\ MatchCount(db[sess.v], lastOp.sent.expr) > 1


\* C5: when load_collection_(name) returns, the collection exists, is loaded and is the
\* active one; one that did not exist has been created empty with the fixed schema and
\* the index on the embedding field; one that existed keeps its schema, index and rows;
\* no other collection is touched, and no step of the client removes a collection.
C5_LoadEnsures ==
    [][/\ (lastOp'.op = "load" /\ lastOp'.err = "") =>
            LET n == lastOp'.name
            IN /\ db'[n].exists /\ db'[n].loaded /\ sess' = PyStr(n)
               /\ ~db[n].exists =>
                    /\ db'[n].schema = Fields
                    /\ db'[n].index = <<"embedding", CreateParams>>
                    /\ db'[n].rows = <<>>
               /\ db[n].exists =>
                    /\ db'[n].schema = db[n].schema
                    /\ db'[n].index = db[n].index
                    /\ db'[n].rows = db[n].rows
               /\ \A m \in Names \ {n} : db'[m] = db[m]
       /\ \A n \in Names : db[n].exists => db'[n].exists]_vars

\* C5 witness: load_collection_ has returned for a collection that already held rows.
C5_Witness ==
    /\ lastOp.op = "load" /\ lastOp.err = ""
    /\ Len(db[lastOp.name].rows) > 0
    /\ \A n \in Names : db[n].exists

\* C6: a store_doc that returns has appended exactly one row, under a primary key no
\* earlier row has, and changed nothing else; a store_doc that raises has written
\* nothing.
C6_StoreAtomic ==
    [][lastOp'.op = "store" =>
         IF lastOp'.err = ""
         THEN \E n \in Names :
                /\ Len(db'[n].rows) = Len(db[n].rows) + 1
                /\ SubSeq(db'[n].rows, 1, Len(db[n].rows)) = db[n].rows
                /\ \A i \in 1..Len(db[n].rows) :
                      db[n].rows[i].id # db'[n].rows[Len(db'[n].rows)].id
                /\ [db'[n] EXCEPT !.rows = db[n].rows] = db[n]
                /\ \A m \in Names \ {n} : db'[m] = db[m]
         ELSE db' = db]_vars

\* C6 witness: a store_doc was refused by the store after a row had been written.
C6_Witness ==
    /\ lastOp.op = "store" /\ lastOp.err = "StoreWrite"
    /\ sess # PyNone /\ Len(db[sess.v].rows) = 1

\* the squared distance the store ranks a returned record by
RetDist(i) == SqDist(F32Vec(lastOp.sent.data.v[1].v), lastOp.ret[i].embedding.v)

\* C7: what search_docs returns is in ascending order of L2 distance to the query, and
\* is the store's ranking entire: as many records as the limit and the filter allow,
\* each one a row of the active collection that satisfies the filter.
C7_AscendingDistance ==
    (lastOp.op = "search" /\ lastOp.err = "") =>
        /\ \A i, j \in 1..Len(lastOp.ret) : i < j => RetDist(i) <= RetDist(j)
        /\ Len(lastOp.ret) =
             Min(lastOp.sent.limit, MatchCount(db[sess.v], lastOp.sent.expr))
        /\ \A i \in 1..Len(lastOp.ret) :
              \E k \in 1..Len(db[sess.v].rows) :
                 /\ Matches(lastOp.sent.expr, db[sess.v].rows[k])
                 /\ lastOp.ret[i] = HitDoc(db[sess.v].rows[k])

\* C7 witness: two records returned, the second strictly farther than the first.
C7_Witness ==
    /\ lastOp.op = "search" /\ lastOp.err = ""
    /\ Len(lastOp.ret) = 2
    /\ RetDist(1) < RetDist(2)

\* C8: construction returns normally whether or not the connection was established;
\* on a client whose connection failed, every store_doc and search_docs fails with the
\* not-loaded or the query failure.
C8_ConnectFailure ==
    /\ lastOp.op = "init" => lastOp.err = ""
    /\ (constructed /\ ~connected /\ lastOp.op \in {"store", "search"})
          => (lastOp.err \in {"NotLoaded", "Query"} /\ db = [n \in Names |-> NoCollection])

\* C8 witness: a constructed client without a connection whose search_docs was refused.
C8_Witness ==
    /\ constructed /\ ~connected
    /\ lastOp.op = "search" /\ lastOp.err = "NotLoaded"

\* C9 (as claimed): store_doc never fails on serializing the headers, and a document
\* whose headers are missing or None is stored with the text "{}".
C9_Claim ==
    /\ lastOp.op = "store" => lastOp.err # "TypeError"
    /\ (/\ lastOp.op = "store" /\ lastOp.err = ""
        /\ Get(lastStored.doc.metadata, "headers", PyNone) = PyNone)
          => LET rows == db[lastStored.coll].rows
             IN rows[Len(rows)].headers = PyStr("{}")

\* C10: self.sess changes only when load_collection_ returns, and then to the collection
\* it was given; once set it is never None again; rows are written only to the
\* collection it names; and a search returns rows of that collection only.
C10_HandleFrame ==
    /\ [][/\ ~(lastOp'.op = "load" /\ lastOp'.err = "") => sess' = sess
          /\ (lastOp'.op = "load" /\ lastOp'.err = "") => sess' = PyStr(lastOp'.name)
          /\ sess # PyNone => sess' # PyNone
          /\ \A n \in Names : db'[n].rows # db[n].rows => sess = PyStr(n)]_vars
    /\ [](lastOp.op = "search" /\ lastOp.err = "" =>
            \A i \in 1..Len(lastOp.ret) :
               \E k \in 1..Len(db[sess.v].rows) :
                  lastOp.ret[i] = HitDoc(db[sess.v].rows[k]))

\* C10 witness: a document of one tenant was stored in the active collection, which is
\* another tenant's, while that tenant's own collection exists.
C10_Witness ==
    /\ lastOp.op = "store" /\ lastOp.err = ""
    /\ sess # PyNone /\ lastStored.coll = sess.v
    /\ lastStored.doc.metadata["user_id"] # sess
    /\ db[lastStored.doc.metadata["user_id"].v].exists

====
